---- MODULE Spec2Model ----
(***************************************************************************)
(* Model of main.py: a Bernoulli multi-armed bandit, the Solver base loop  *)
(* and the three policies EpsilonGreedy, DecayingEpsilonGreedy and UCB.    *)
(*                                                                         *)
(* Numbers.  The program computes with float64.  The model computes with   *)
(* exact rationals <<n, d>> (d > 0, lowest terms), so every statement      *)
(* below is about the real-number value of the program's expressions;      *)
(* float64 rounding is not modelled.  The UCB score contains sqrt(log t),  *)
(* which is irrational: it is enclosed in an interval of width about       *)
(* 2/Scale, and the arg-max of the scores is every arm the enclosures do   *)
(* not exclude (an over-approximation of what the program can choose).     *)
(*                                                                         *)
(* Randomness.  np.random.uniform / rand / random draw from [0,1): the     *)
(* model draws from the grid {0, 1/ProbDen, ..., (ProbDen-1)/ProbDen}.     *)
(* np.random.randint(0, K) draws from 0..K-1.                              *)
(***************************************************************************)
EXTENDS Integers, Sequences, FiniteSets, TLC

VARIABLES bandit,      \* the BernoulliBandit object: K, probs, best_idx, best_prob
          solver,      \* solver name -> its object (counts, regret, actions, ...)
          running,     \* the solver whose run() is executing, or "none"
          remaining,   \* iterations left in the executing run() loop
          requested,   \* solver name -> sum of the num_steps >= 0 passed to run()
          rewards,     \* solver name -> arm -> sum of the rewards r observed for it
          branch,      \* solver name -> branch taken by its last run_one_step
          init_prob,   \* solver name -> the init_prob its constructor was called with
          lastCall     \* the last observed call from outside: run(num_steps) or step(k)

vars == <<bandit, solver, running, remaining, requested, rewards, branch, init_prob, lastCall>>

----------------------------------------------------------------------------
(* Bounds of the model *)

MaxK == 2            \* arms per bandit: K in 1..MaxK
SweepK == 3          \* arms per bandit where only a UCB solver runs
ProbDen == 2         \* grid of the random draws in [0,1)
MaxRounds == 3       \* rounds requested from all solvers together
MaxRun == 2          \* largest num_steps of one run() call
CallRounds == 1      \* rounds requested where every call is observed
DecayRounds == 102   \* num_steps of the long DecayingEpsilonGreedy run
LuckyRounds == 2     \* in the long run, rounds in which a reward of 1 can be drawn

----------------------------------------------------------------------------
(* Exact rational arithmetic *)

Abs(x) == IF x < 0 THEN -x ELSE x

RECURSIVE GCD(_, _)
GCD(a, b) == IF b = 0 THEN a ELSE GCD(b, a % b)

Rat(n, d) ==
    LET g == GCD(Abs(n), Abs(d))
        s == IF d < 0 THEN -1 ELSE 1
    IN  <<(s * n) \div g, (s * d) \div g>>

RAdd(x, y) == Rat(x[1] * y[2] + y[1] * x[2], x[2] * y[2])
RSub(x, y) == Rat(x[1] * y[2] - y[1] * x[2], x[2] * y[2])
RMul(x, y) == Rat(x[1] * y[1], x[2] * y[2])
RLess(x, y) == x[1] * y[2] < y[1] * x[2]
RLeq(x, y)  == x[1] * y[2] <= y[1] * x[2]

Zero == Rat(0, 1)
One  == Rat(1, 1)

\* np.argmax: the first index holding the maximum
Argmax(f) ==
    CHOOSE i \in DOMAIN f :
        /\ \A j \in DOMAIN f : RLeq(f[j], f[i])
        /\ \A j \in DOMAIN f : j < i => RLess(f[j], f[i])

\* the values np.random.uniform / rand / random can return
Draws == { Rat(i, ProbDen) : i \in 0..(ProbDen - 1) }

----------------------------------------------------------------------------
(* class BernoulliBandit *)

\* as __init__, but best_prob taken from the first arm instead of best_idx
BernoulliBanditFirst(K, p) ==
    [K |-> K, probs |-> p, best_idx |-> Argmax(p), best_prob |-> p[0]]

\* __init__(K) with the K uniform draws p
BernoulliBandit(K, p) ==
    LET idx == Argmax(p)
    IN  [K |-> K, probs |-> p, best_idx |-> idx, best_prob |-> p[idx]]

\* the bandits of up to maxK arms
Bandits(maxK) ==
    UNION { { BernoulliBandit(K, p) : p \in [0..(K - 1) -> Draws] } : K \in 1..maxK }

\* step(k) for an index k of probs, with the draw ran
step(k, ran) == IF RLess(ran, bandit.probs[k]) THEN 1 ELSE 0

\* probs[k] as numpy indexes it: 0..K-1 directly, -K..-1 counted from the end;
\* any other k raises IndexError
InBounds(k) == k \in (-bandit.K)..(bandit.K - 1)
Index(k) == IF k < 0 THEN bandit.K + k ELSE k

\* a direct call bandit.step(k) with any integer k, its outcome observed
StepCall(k) ==
    /\ running = "none"
    /\ \E ran \in Draws :
         lastCall' = IF InBounds(k)
                     THEN [op |-> "step", arg |-> k, raised |-> "none",
                           result |-> step(Index(k), ran)]
                     ELSE [op |-> "step", arg |-> k, raised |-> "IndexError"]
    /\ UNCHANGED <<bandit, solver, running, remaining, requested, rewards, branch, init_prob>>

----------------------------------------------------------------------------
(* class Solver and its three subclasses *)

Names == {"EpsilonGreedy", "DecayingEpsilonGreedy", "UCB"}

Arms == 0..(bandit.K - 1)

\* Solver.__init__
Solver(b) ==
    [counts  |-> [a \in 0..(b.K - 1) |-> 0],
     regret  |-> Zero,
     actions |-> <<>>,
     regrets |-> <<>>]

\* EpsilonGreedy.__init__
EpsilonGreedy(b, eps, ip) ==
    Solver(b) @@ [epsilon   |-> eps,
                  estimates |-> [a \in 0..(b.K - 1) |-> ip]]

\* DecayingEpsilonGreedy.__init__
DecayingEpsilonGreedy(b, ip) ==
    Solver(b) @@ [estimates   |-> [a \in 0..(b.K - 1) |-> ip],
                  total_count |-> 0]

\* UCB.__init__
UCB(b, c, ip) ==
    Solver(b) @@ [total_count |-> 0,
                  estimates   |-> [a \in 0..(b.K - 1) |-> ip],
                  coef        |-> c]

\* the hyperparameters the constructors are called with; the code checks none
Epsilons  == { Rat(1, 100), Rat(3, 2) }
Coefs     == { Rat(1, 1), Rat(1, 2), Rat(0, 1), Rat(-1, 1) }
InitProbs == { One, Rat(1, 2) }

\* as the update below, but with the step size 1 / (counts[k] + 2)
EstimateLate(self, k, r) ==
    RAdd(self.estimates[k],
         RMul(Rat(1, self.counts[k] + 2), RSub(Rat(r, 1), self.estimates[k])))

\* self.estimates[k] += 1. / (self.counts[k] + 1) * (r - self.estimates[k])
Estimate(self, k, r) ==
    RAdd(self.estimates[k],
         RMul(Rat(1, self.counts[k] + 1), RSub(Rat(r, 1), self.estimates[k])))

\* EpsilonGreedy.run_one_step: the arm chosen for the draws u (random()) and
\* j (randint(0, K))
EpsilonGreedyArm(self, u, j) ==
    IF RLess(u, self.epsilon) THEN j ELSE Argmax(self.estimates)

\* as the threshold below, but with 0.1 for 0.01
ThresholdTenth(t) == RSub(Rat(1, 10), Rat(1, t))

\* the epsilon of DecayingEpsilonGreedy at round counter t
Threshold(t) == RSub(Rat(1, 100), Rat(1, t))

\* DecayingEpsilonGreedy.run_one_step: the arm chosen, total_count already incremented
DecayingArm(self, t, u, j) ==
    IF RLess(u, Threshold(t)) THEN j ELSE Argmax(self.estimates)

----------------------------------------------------------------------------
(* The UCB score  estimates + coef * sqrt(log(total_count) / (2 * (counts + 1)))  *)

Scale == 10000       \* the enclosures are in units of 1/Scale

\* floor(Scale * log(t)) for t = 1..13
LogTable == <<0, 6931, 10986, 13862, 16094, 17917, 19459,
              20794, 21972, 23025, 23978, 24849, 25649>>

LogLo(t) == LogTable[t]
LogHi(t) == IF t = 1 THEN 0 ELSE LogTable[t] + 1

Floor(n, d) == n \div d
Ceil(n, d)  == -((-n) \div d)

RECURSIVE SqrtSearch(_, _, _)
SqrtSearch(n, lo, hi) ==
    IF lo = hi THEN lo
    ELSE LET mid == (lo + hi + 1) \div 2
         IN  IF mid * mid <= n THEN SqrtSearch(n, mid, hi)
                               ELSE SqrtSearch(n, lo, mid - 1)

\* floor and ceiling of the square root of n <= 4 * Scale * Scale
SqrtLo(n) == SqrtSearch(n, 0, 2 * Scale)
SqrtHi(n) == LET r == SqrtLo(n) IN IF r * r = n THEN r ELSE r + 1

\* Scale * sqrt(log(t) / (2 * (c + 1))) lies in BonusLo..BonusHi
BonusLo(t, c) == SqrtLo(Floor(LogLo(t), 2 * (c + 1)) * Scale)
BonusHi(t, c) == SqrtHi(Ceil(LogHi(t), 2 * (c + 1)) * Scale)

\* Scale * ucb[a] lies in ScoreLo..ScoreHi
ScoreLo(self, t, a) ==
    LET e == self.estimates[a]
        c == self.coef
        b == IF c[1] >= 0 THEN BonusLo(t, self.counts[a]) ELSE BonusHi(t, self.counts[a])
    IN  Floor(e[1] * Scale, e[2]) + Floor(c[1] * b, c[2])

ScoreHi(self, t, a) ==
    LET e == self.estimates[a]
        c == self.coef
        b == IF c[1] >= 0 THEN BonusHi(t, self.counts[a]) ELSE BonusLo(t, self.counts[a])
    IN  Ceil(e[1] * Scale, e[2]) + Ceil(c[1] * b, c[2])

\* two arms get the same bonus: equal counts, or a bonus that is zero for all
SameBonus(self, t, a, b) ==
    \/ self.counts[a] = self.counts[b]
    \/ t = 1
    \/ self.coef = Zero

\* ucb[a] < ucb[b] is not excluded
MaybeLess(self, t, a, b) ==
    IF SameBonus(self, t, a, b)
    THEN RLess(self.estimates[a], self.estimates[b])
    ELSE ScoreLo(self, t, a) < ScoreHi(self, t, b)

\* ucb[a] <= ucb[b] is not excluded
MaybeLeq(self, t, a, b) ==
    IF SameBonus(self, t, a, b)
    THEN RLeq(self.estimates[a], self.estimates[b])
    ELSE ScoreLo(self, t, a) <= ScoreHi(self, t, b)

\* as the selection below, but on the estimates alone, without the bonus
UCBArmsGreedy(self, t) == { Argmax(self.estimates) }

\* np.argmax(ucb): the arms that can be the first maximum of the scores
UCBArms(self, t) ==
    { k \in DOMAIN self.estimates :
        /\ \A a \in DOMAIN self.estimates : a < k => MaybeLess(self, t, a, k)
        /\ \A a \in DOMAIN self.estimates : a > k => MaybeLeq(self, t, a, k) }

----------------------------------------------------------------------------
(* run_one_step of the three subclasses and the body of Solver.run *)

\* the arm run_one_step selects and the branch of its if, for the draws
\* u = np.random.random() and j = np.random.randint(0, K)
Choices(s, u, j) ==
    LET self == solver[s]
    IN  CASE s = "EpsilonGreedy" ->
               { [k |-> EpsilonGreedyArm(self, u, j),
                  branch |-> IF RLess(u, self.epsilon) THEN "explore" ELSE "exploit"] }
          [] s = "DecayingEpsilonGreedy" ->
               { [k |-> DecayingArm(self, self.total_count + 1, u, j),
                  branch |-> IF RLess(u, Threshold(self.total_count + 1))
                             THEN "explore" ELSE "exploit"] }
          [] s = "UCB" ->
               { [k |-> k, branch |-> "ucb"] : k \in UCBArms(self, self.total_count + 1) }

\* run_one_step: the solver after it selected arm k and got reward r
run_one_step(s, k, r) ==
    LET self == solver[s]
        est  == [self EXCEPT !.estimates[k] = Estimate(self, k, r)]
    IN  IF s = "EpsilonGreedy" THEN est
        ELSE [est EXCEPT !.total_count = @ + 1]

\* as update_regret, but appending the regret before it is increased
update_regret_stale(self, k) ==
    LET new == RAdd(self.regret, RSub(bandit.best_prob, bandit.probs[k]))
    IN  [self EXCEPT !.regret = new, !.regrets = Append(@, self.regret)]

\* as update_regret, but measuring against a reward probability of 1
update_regret_ideal(self, k) ==
    LET new == RAdd(self.regret, RSub(One, bandit.probs[k]))
    IN  [self EXCEPT !.regret = new, !.regrets = Append(@, new)]

\* Solver.update_regret(k)
update_regret(self, k) ==
    LET new == RAdd(self.regret, RSub(bandit.best_prob, bandit.probs[k]))
    IN  [self EXCEPT !.regret = new, !.regrets = Append(@, new)]

\* as the loop body below, but overwriting actions instead of appending to it
RecordOverwrite(self, k) ==
    update_regret([self EXCEPT !.counts[k] = @ + 1, !.actions = <<k>>], k)

\* one iteration of the loop of Solver.run, after run_one_step returned k
Record(self, k) ==
    update_regret([self EXCEPT !.counts[k] = @ + 1, !.actions = Append(@, k)], k)

\* as the store below, but with counts an array shared by all solvers
StoreShared(s, self) ==
    [o \in DOMAIN solver |->
        IF o = s THEN self ELSE [solver[o] EXCEPT !.counts = self.counts]]

\* the attributes written during a round are those of the solver itself
Store(s, self) == [solver EXCEPT ![s] = self]

\* one iteration of the loop of run() of solver s: run_one_step made the
\* choice c and step is called with the reward draw ran
Iteration(s, c, ran) ==
    /\ running = s
    /\ remaining > 0
    /\ LET r == step(c.k, ran)
       IN  /\ solver' = Store(s, Record(run_one_step(s, c.k, r), c.k))
           /\ rewards' = [rewards EXCEPT ![s][c.k] = @ + r]
           /\ branch' = [branch EXCEPT ![s] = c.branch]
    /\ remaining' = remaining - 1
    /\ running' = IF remaining = 1 THEN "none" ELSE s
    /\ UNCHANGED <<bandit, requested, init_prob, lastCall>>

Round(s) ==
    /\ running = s
    /\ \E u \in Draws, j \in Arms :
         \E c \in Choices(s, u, j) : \E ran \in Draws : Iteration(s, c, ran)

\* a call run(n) of solver s: range(n) is empty for n <= 0
run(s, n) ==
    /\ running = "none"
    /\ running' = IF n > 0 THEN s ELSE "none"
    /\ remaining' = IF n > 0 THEN n ELSE 0
    /\ requested' = [requested EXCEPT ![s] = @ + (IF n > 0 THEN n ELSE 0)]
    /\ UNCHANGED <<bandit, solver, rewards, branch, init_prob>>

RECURSIVE Total(_, _)
Total(f, S) == IF S = {} THEN 0
               ELSE LET x == CHOOSE y \in S : TRUE IN f[x] + Total(f, S \ {x})

RunSizes == (-1)..MaxRun

RunCall(s, n) ==
    /\ Total(requested, DOMAIN requested) + (IF n > 0 THEN n ELSE 0) <= MaxRounds
    /\ run(s, n)
    /\ UNCHANGED lastCall

\* a call run(n) whose outcome is observed: no call of run raises
ObservedRun(s, n) ==
    /\ Total(requested, DOMAIN requested) + (IF n > 0 THEN n ELSE 0) <= CallRounds
    /\ run(s, n)
    /\ lastCall' = [op |-> "run", self |-> s, arg |-> n, raised |-> "none"]

----------------------------------------------------------------------------
(* Specifications *)

NoCall == [op |-> "none"]

\* the state after the bandit and the solvers S were constructed, solver s
\* with init_prob = ip[s]
Constructed(b, S, ip) ==
    /\ bandit = b
    /\ solver = S
    /\ running = "none"
    /\ remaining = 0
    /\ requested = [s \in DOMAIN S |-> 0]
    /\ rewards = [s \in DOMAIN S |-> [a \in 0..(b.K - 1) |-> 0]]
    /\ branch = [s \in DOMAIN S |-> "none"]
    /\ init_prob = ip
    /\ lastCall = NoCall

\* one solver of any class, with any hyperparameters
Init ==
    \E b \in Bandits(MaxK), ip \in InitProbs :
        \/ \E eps \in Epsilons :
             Constructed(b, "EpsilonGreedy" :> EpsilonGreedy(b, eps, ip),
                         "EpsilonGreedy" :> ip)
        \/ Constructed(b, "DecayingEpsilonGreedy" :> DecayingEpsilonGreedy(b, ip),
                      "DecayingEpsilonGreedy" :> ip)
        \/ \E c \in Coefs : Constructed(b, "UCB" :> UCB(b, c, ip), "UCB" :> ip)

Next == \E s \in DOMAIN solver : (\E n \in RunSizes : RunCall(s, n)) \/ Round(s)

Spec == Init /\ [][Next]_vars

\* the three solvers of the script on one bandit, with the script's hyperparameters
InitShared ==
    \E b \in Bandits(MaxK) :
        Constructed(b, ("EpsilonGreedy" :> EpsilonGreedy(b, Rat(1, 100), One))
                       @@ ("UCB" :> UCB(b, One, One))
                       @@ ("DecayingEpsilonGreedy" :> DecayingEpsilonGreedy(b, One)),
                    [s \in Names |-> One])

SpecShared == InitShared /\ [][Next]_vars

\* one solver, every call of run and of bandit.step observed
NextCalls ==
    \/ \E k \in (-(MaxK + 1))..(MaxK + 1) : StepCall(k)
    \/ \E s \in DOMAIN solver : (\E n \in RunSizes : ObservedRun(s, n)) \/ Round(s)

SpecCalls == Init /\ [][NextCalls]_vars

\* a UCB solver alone, on bandits of up to SweepK arms
InitUCB ==
    \E b \in Bandits(SweepK), ip \in InitProbs, c \in Coefs :
        Constructed(b, "UCB" :> UCB(b, c, ip), "UCB" :> ip)

SpecUCB == InitUCB /\ [][Next]_vars

\* one long run of a DecayingEpsilonGreedy solver; after LuckyRounds rounds the
\* reward draw is the largest one, for which step returns 0
InitDecay ==
    \E b \in Bandits(MaxK), ip \in InitProbs :
        Constructed(b, "DecayingEpsilonGreedy" :> DecayingEpsilonGreedy(b, ip),
                    "DecayingEpsilonGreedy" :> ip)

LongRun ==
    /\ requested["DecayingEpsilonGreedy"] = 0
    /\ run("DecayingEpsilonGreedy", DecayRounds)
    /\ UNCHANGED lastCall

LongRound ==
    \E u \in Draws, j \in Arms :
        \E c \in Choices("DecayingEpsilonGreedy", u, j) :
            \E ran \in IF Len(solver["DecayingEpsilonGreedy"].actions) < LuckyRounds
                       THEN Draws ELSE { Rat(ProbDen - 1, ProbDen) } :
                Iteration("DecayingEpsilonGreedy", c, ran)

NextDecay == LongRun \/ LongRound

SpecDecay == InitDecay /\ [][NextDecay]_vars

----------------------------------------------------------------------------
(* Properties *)

Last(q) == q[Len(q)]

\* the rounds solver s has executed: everything requested of it, less what
\* the executing run() still has to do
Executed(s) == requested[s] - (IF running = s THEN remaining ELSE 0)

RECURSIVE ProbSum(_, _)
\* the sum of the true probabilities of the arms acts[1..t]
ProbSum(acts, t) ==
    IF t = 0 THEN Zero ELSE RAdd(ProbSum(acts, t - 1), bandit.probs[acts[t]])

\* C1: for every solver, once its run() calls have returned, the sum of the
\* pull counts, the length of actions and the length of regrets all equal the
\* sum of the num_steps >= 0 it was called with (and, while a run() executes,
\* that sum less the iterations still to do): calls extend, never reset.
C1_HistoryExtends ==
    \A s \in DOMAIN solver :
        /\ Total(solver[s].counts, DOMAIN solver[s].counts) = Executed(s)
        /\ Len(solver[s].actions) = Executed(s)
        /\ Len(solver[s].regrets) = Executed(s)

C1_Witness ==
    \E s \in DOMAIN solver :
        /\ running = "none"
        /\ requested[s] > MaxRun
        /\ Len(solver[s].actions) = requested[s]

\* C2: for every solver and every t >= 1, regrets[t] equals best_prob * t less
\* the sum of the true probabilities of actions[1..t], and the regret scalar
\* equals the last entry of regrets.
C2_RegretFormula ==
    \A s \in DOMAIN solver :
        LET self == solver[s]
        IN  /\ \A t \in 1..Len(self.regrets) :
                 /\ t <= Len(self.actions)
                 /\ self.regrets[t] =
                      RSub(RMul(bandit.best_prob, Rat(t, 1)), ProbSum(self.actions, t))
            /\ self.regret = IF self.regrets = <<>> THEN Zero ELSE Last(self.regrets)

C2_Witness ==
    \E s \in DOMAIN solver :
        /\ Len(solver[s].regrets) >= 3
        /\ solver[s].actions[1] # solver[s].actions[2]
        /\ RLess(solver[s].regrets[1], solver[s].regrets[3])

\* C3: for every solver, regrets is non-decreasing and no entry is negative.
C3_RegretMonotone ==
    \A s \in DOMAIN solver :
        \A t \in 1..Len(solver[s].regrets) :
            /\ RLeq(Zero, solver[s].regrets[t])
            /\ t > 1 => RLeq(solver[s].regrets[t - 1], solver[s].regrets[t])

C3_Witness ==
    \E s \in DOMAIN solver :
        /\ Len(solver[s].regrets) >= 3
        /\ solver[s].regrets[1] = solver[s].regrets[2]
        /\ RLess(solver[s].regrets[2], solver[s].regrets[3])

\* C4: at every round boundary, for every solver and arm a: if a was pulled
\* n >= 1 times then estimates[a] * n is the sum of the rewards observed for a,
\* and if a was never pulled then estimates[a] is init_prob.
C4_EstimateIsMean ==
    \A s \in DOMAIN solver :
        \A a \in DOMAIN solver[s].estimates :
            IF solver[s].counts[a] = 0
            THEN solver[s].estimates[a] = init_prob[s]
            ELSE RMul(solver[s].estimates[a], Rat(solver[s].counts[a], 1))
                   = Rat(rewards[s][a], 1)

C4_Witness ==
    \E s \in DOMAIN solver :
        \E a \in DOMAIN solver[s].estimates :
            /\ solver[s].counts[a] = 3
            /\ rewards[s][a] = 2
            /\ init_prob[s] # One

\* C5: step(k) with k outside [0, K) fails and returns no reward (whatever
\* the error raised is called).
C5_OutOfRangeFails ==
    (lastCall.op = "step" /\ lastCall.arg \notin 0..(bandit.K - 1))
        => lastCall.raised # "none"

\* a solver constructed with a hyperparameter outside its domain
Malformed(s) ==
    \/ s = "EpsilonGreedy"
         /\ ~(RLess(Zero, solver[s].epsilon) /\ RLess(solver[s].epsilon, One))
    \/ s = "UCB" /\ RLess(solver[s].coef, Zero)

\* C6: run with a non-positive round count fails, and a solver constructed
\* with epsilon outside (0,1) or a negative coef never executes a round.
C6_MalformedRejected ==
    /\ (lastCall.op = "run" /\ lastCall.arg <= 0) => lastCall.raised # "none"
    /\ \A s \in DOMAIN solver :
         Malformed(s) => (solver[s].actions = <<>> /\ requested[s] = 0)

C8_SingleArm ==
    bandit.K = 1 =>
        \A s \in DOMAIN solver :
            /\ \A t \in 1..Len(solver[s].actions) : solver[s].actions[t] = 0
            /\ \A t \in 1..Len(solver[s].regrets) : solver[s].regrets[t] = Zero
            /\ solver[s].regret = Zero

C8_Witness ==
    /\ bandit.K = 1
    /\ \E s \in DOMAIN solver :
         /\ Len(solver[s].actions) >= 3
         /\ branch[s] = "explore"
         /\ rewards[s][0] = 1

\* C9: a step changes the object of no solver other than the one whose run()
\* executes, and never changes the bandit.
C9_Frame ==
    [][ /\ bandit' = bandit
        /\ DOMAIN solver' = DOMAIN solver
        /\ \A o \in DOMAIN solver :
             o # running => /\ solver'[o] = solver[o]
                            /\ rewards'[o] = rewards[o]
                            /\ branch'[o] = branch[o] ]_vars

C9_Witness ==
    /\ \A s \in Names : s \in DOMAIN solver /\ Len(solver[s].actions) >= 1
    /\ \E s \in Names : solver[s].regret # Zero

====
